---- MODULE Spec2Model ----
(***************************************************************************)
(* A model of lib/munin_vt.py: the VirusTotal lookup (getVTInfo), the      *)
(* retrohunt pager (getRetrohuntResults), the record normalizer            *)
(* (processVirustotalSampleInfo), the comment enricher                     *)
(* (searchVirustotalComments) and the quota inspector                      *)
(* (checkVirustotalQuota).                                                 *)
(*                                                                         *)
(* One behaviour of the model is one call of one of these functions.  The  *)
(* HTTP endpoint is the environment: every requests.get either raises (a   *)
(* transport exception) or delivers a response (status code, body), drawn  *)
(* from small sets.  A Python dict is a TLA+ function on strings, a list   *)
(* is a sequence; a key the payload lacks is a key outside DOMAIN.  A      *)
(* Python exception that leaves the called function is the position        *)
(* pc = "raised", with the exception's type in ret.                        *)
(***************************************************************************)
EXTENDS Integers, Sequences, FiniteSets, TLC

VARIABLES
    op,        \* the function that was called
    args,      \* its arguments
    hashSeed,  \* the interpreter's string hash seed: fixes the order of set(...)
    pc,        \* position: "call", "loop", "exit", "returned", "raised"
    resp,      \* outcome of the latest requests.get on the main endpoint
    requests,  \* number of requests.get calls on the function's main endpoint
    sleeps,    \* number of time.sleep calls
    slept,     \* whether the latest loop iteration slept
    files,     \* getRetrohuntResults: the list files
    url,       \* getRetrohuntResults: the URL of the next request
    urls,      \* getRetrohuntResults: the URLs requested, in order
    nexts,     \* getRetrohuntResults: links.next of the pages parsed, in order
    served,    \* getRetrohuntResults: the entries of the pages read, in order
    ret        \* the value returned, or the type of the exception raised

vars == <<op, args, hashSeed, pc, resp, requests, sleeps, slept, files, url,
          urls, nexts, served, ret>>

-----------------------------------------------------------------------------
(* Bounds of the model *)

\* requests.get calls of one getVTInfo call
MaxAttempts == 3
\* pages of one getRetrohuntResults call
MaxPages == 2
\* entries over all pages of one getRetrohuntResults call
MaxEntries == 5
\* comment entries of one comments response
MaxComments == 2

-----------------------------------------------------------------------------
(* Python values *)

\* filesize is the one field whose Python type changes (int by default, str
\* once extracted): its values carry their type.
PyInt(n) == [py |-> "int", v |-> n]
PyStr(s) == [py |-> "str", v |-> s]
\* an argument that callers pass as a bool or as a list
PyBool(b) == [py |-> "bool", v |-> b]
PyList(s) == [py |-> "list", v |-> s]

EmptyDict == [k \in {} |-> k]

Put(d, k, v) == [x \in DOMAIN d \cup {k} |-> IF x = k THEN v ELSE d[x]]

\* dict.update
Update(d, e) == [x \in DOMAIN d \cup DOMAIN e |-> IF x \in DOMAIN e THEN e[x] ELSE d[x]]

Drop(d, K) == [x \in DOMAIN d \ K |-> d[x]]

Range(s) == {s[i] : i \in DOMAIN s}

\* ", ".join(list) and " / ".join(list)
RECURSIVE Join(_, _)
Join(sep, s) ==
    IF Len(s) = 0 THEN ""
    ELSE IF Len(s) = 1 THEN s[1]
    ELSE s[1] \o sep \o Join(sep, Tail(s))

\* The strings that reach a set(...): file names and tags.
StrUniverse == <<"a_c.txt", "a;c.txt", "b.exe", "c1", "c2", "t1", "t2">>

Rank(x) == CHOOSE i \in 1..Len(StrUniverse) : StrUniverse[i] = x

\* list(set(S)): the elements of S in the iteration order of a set of str, which
\* the hash seed of the process decides.
RECURSIVE ListOfSet(_)
ListOfSet(S) ==
    IF S = {} THEN <<>>
    ELSE LET x == CHOOSE y \in S : \A z \in S :
                      IF hashSeed = 0 THEN Rank(y) <= Rank(z) ELSE Rank(y) >= Rank(z)
         IN <<x>> \o ListOfSet(S \ {x})

uniqList(listx) == ListOfSet(Range(listx))

-----------------------------------------------------------------------------
(* convertSize *)

size_name == <<"B", "KB", "MB", "GB", "TB", "PB", "EB", "ZB", "YB">>

RECURSIVE Pow1024(_)
Pow1024(i) == IF i = 0 THEN 1 ELSE 1024 * Pow1024(i - 1)

\* int(math.floor(math.log(n, 1024))) for n >= 1
RECURSIVE Log1024(_)
Log1024(n) == IF n < 1024 THEN 0 ELSE 1 + Log1024(n \div 1024)

\* str of a float with at most two decimals, given in hundredths
FloatStr(h) ==
    LET whole == h \div 100
        frac == h % 100
    IN ToString(whole) \o "." \o
       (IF frac % 10 = 0 THEN ToString(frac \div 10)
        ELSE IF frac < 10 THEN "0" \o ToString(frac)
        ELSE ToString(frac))

convertSize(size_bytes) ==
    IF size_bytes = 0 THEN "0B"
    ELSE LET i == Log1024(size_bytes)
             p == Pow1024(i)
             s == (size_bytes * 100 + p \div 2) \div p
         IN FloatStr(s) \o " " \o size_name[i + 1]

-----------------------------------------------------------------------------
(* getEmptyInfo, get_crossplatfrom_basename *)

getEmptyInfo ==
    [hash |-> "-", result |-> "- / -", virus |-> "-", last_submitted |-> "-",
     first_submitted |-> "-", filenames |-> "-", filetype |-> "-",
     rating |-> "unknown", positives |-> 0, imphash |-> "-", harmless |-> FALSE,
     revoked |-> FALSE, signed |-> FALSE, expired |-> FALSE, mssoft |-> FALSE,
     vendor_results |-> EmptyDict, signer |-> "-", vt_queried |-> TRUE,
     tags |-> <<>>, copyright |-> "-", description |-> "-",
     times_submitted |-> 0, reputation |-> 0, filesize |-> PyInt(0)]

\* A path is the sequence of its separators ("/" or "\\") and name parts.
\* path.replace("\\", "/")
ReplaceBackslash(path) == [i \in DOMAIN path |-> IF path[i] = "\\" THEN "/" ELSE path[i]]

\* os.path.basename: what follows the last "/"
RECURSIVE PosixBasename(_)
PosixBasename(path) ==
    IF Len(path) = 0 THEN ""
    ELSE IF path[Len(path)] = "/" THEN ""
    ELSE PosixBasename(SubSeq(path, 1, Len(path) - 1)) \o path[Len(path)]

get_crossplatfrom_basename(path) == PosixBasename(ReplaceBackslash(path))

\* str.replace(";", "_") on the file names of the model
ReplaceSemicolon(name) == IF name = "a;c.txt" THEN "a_c.txt" ELSE name

\* datetime.utcfromtimestamp(t).strftime("%Y-%m-%d %H:%M:%S"), for a t in January 1970
Pad2(n) == IF n < 10 THEN "0" \o ToString(n) ELSE ToString(n)

FormatTimestamp(t) ==
    "1970-01-" \o Pad2(1 + t \div 86400) \o " " \o Pad2((t % 86400) \div 3600)
        \o ":" \o Pad2((t % 3600) \div 60) \o ":" \o Pad2(t % 60)

-----------------------------------------------------------------------------
(* processVirustotalSampleInfo *)

\* The state of the try block: the record so far, and whether an exception has
\* been raised (the remaining statements are then skipped, and finally returns
\* the record as it is).
Running(info) == [ok |-> TRUE, info |-> info]
Raised(info) == [ok |-> FALSE, info |-> info]

\* info[key] = a[src]: KeyError when a lacks src
Copy(r, a, src, key) ==
    IF ~r.ok THEN r
    ELSE IF src \notin DOMAIN a THEN Raised(r.info)
    ELSE Running(Put(r.info, key, a[src]))

RemoveFirst(s, x) ==
    IF x \notin Range(s) THEN s
    ELSE LET i == CHOOSE j \in DOMAIN s : s[j] = x /\ \A k \in 1..(j - 1) : s[k] # x
         IN SubSeq(s, 1, i - 1) \o SubSeq(s, i + 1, Len(s))

ExtractFilenames(r, a) ==
    IF ~r.ok THEN r
    ELSE IF "names" \notin DOMAIN a THEN Raised(r.info)
    ELSE LET listed == ListOfSet({get_crossplatfrom_basename(a.names[i]) : i \in DOMAIN a.names})
             promoted ==
                 IF "meaningful_name" \in DOMAIN a
                 THEN LET meaningful_name == get_crossplatfrom_basename(a.meaningful_name)
                      IN <<meaningful_name>> \o RemoveFirst(listed, meaningful_name)
                 ELSE listed
         IN Running([r.info EXCEPT !.filenames =
                        Join(", ", [i \in DOMAIN promoted |-> ReplaceSemicolon(promoted[i])])])

ExtractFilesize(r, a) ==
    IF ~r.ok THEN r
    ELSE IF "size" \notin DOMAIN a THEN Raised(r.info)
    ELSE Running([r.info EXCEPT !.filesize = PyStr(convertSize(a.size))])

ExtractTimestamp(r, a, src, key) ==
    IF ~r.ok THEN r
    ELSE IF src \notin DOMAIN a THEN Raised(r.info)
    ELSE Running(Put(r.info, key, FormatTimestamp(a[src])))

ExtractExiftool(r, a) ==
    IF ~r.ok THEN r
    ELSE IF "exiftool" \notin DOMAIN a THEN r
    ELSE IF "LegalCopyright" \notin DOMAIN a.exiftool THEN r
    ELSE LET withCopyright == [r.info EXCEPT !.copyright = a.exiftool.LegalCopyright]
         IN IF "FileDescription" \in DOMAIN a.exiftool
            THEN Running([withCopyright EXCEPT !.description = a.exiftool.FileDescription])
            ELSE Running(withCopyright)

ExtractPeInfo(r, a) ==
    IF ~r.ok THEN r
    ELSE IF "pe_info" \notin DOMAIN a THEN r
    ELSE IF "imphash" \notin DOMAIN a.pe_info THEN r
    ELSE Running([r.info EXCEPT !.imphash = a.pe_info.imphash])

\* verified is the sequence of the words of the status string: == compares the
\* whole string, "in" finds a word in it.
ExtractSignature(r, a) ==
    IF ~r.ok THEN r
    ELSE IF "signature_info" \notin DOMAIN a THEN r
    ELSE LET sig == a.signature_info
             withSigner == IF "signers" \in DOMAIN sig
                           THEN [r.info EXCEPT !.signer = sig.signers]
                           ELSE r.info
         IN IF "verified" \notin DOMAIN sig THEN Running(withSigner)
            ELSE Running([withSigner EXCEPT
                             !.signed = IF sig.verified = <<"Signed">> THEN TRUE ELSE @,
                             !.revoked = IF "Revoked" \in Range(sig.verified) THEN TRUE ELSE @,
                             !.expired = IF "Expired" \in Range(sig.verified) THEN TRUE ELSE @])

HasStats(a, keys) ==
    /\ "last_analysis_stats" \in DOMAIN a
    /\ keys \subseteq DOMAIN a.last_analysis_stats

ExtractPositives(r, a) ==
    IF ~r.ok THEN r
    ELSE IF ~HasStats(a, {"malicious", "suspicious"}) THEN Raised(r.info)
    ELSE Running([r.info EXCEPT !.positives =
                     a.last_analysis_stats.malicious + a.last_analysis_stats.suspicious])

ExtractTotal(r, a) ==
    IF ~r.ok THEN r
    ELSE IF ~HasStats(a, {"undetected", "malicious", "suspicious", "harmless"})
         THEN Raised(r.info)
    ELSE Running(Put(r.info, "total",
                     a.last_analysis_stats.undetected + a.last_analysis_stats.malicious
                         + a.last_analysis_stats.suspicious + a.last_analysis_stats.harmless))

RatingOffByOne(positives) ==
    IF positives = 0 THEN "clean"
    ELSE IF positives < 10 THEN "suspicious"
    ELSE "malicious"

Rating(positives) ==
    IF positives = 0 THEN "clean"
    ELSE IF positives <= 10 THEN "suspicious"
    ELSE "malicious"

SetRating(r) ==
    IF ~r.ok THEN r
    ELSE Running([r.info EXCEPT !.rating = Rating(r.info.positives)])

\* scans, a JSON object in the order of its members, is a sequence of
\* <<vendor, entry>>.
ScanVendors(scans) == [i \in DOMAIN scans |-> scans[i][1]]

ScanEntry(scans, vendor) == scans[CHOOSE i \in DOMAIN scans : scans[i][1] = vendor][2]

\* The for loop over loop_vendors: acc is [ok, vendor_results, virus_names].
RECURSIVE VendorLoop(_, _, _)
VendorLoop(loop_vendors, scans, acc) ==
    IF Len(loop_vendors) = 0 \/ ~acc.ok THEN acc
    ELSE LET vendor == Head(loop_vendors)
             next ==
                 IF vendor \in Range(ScanVendors(scans))
                 THEN LET entry == ScanEntry(scans, vendor)
                      IN IF "result" \notin DOMAIN entry
                         THEN [acc EXCEPT !.ok = FALSE]
                         ELSE IF entry.result # ""
                         THEN [acc EXCEPT
                                  !.virus_names = Append(@, vendor \o ": " \o entry.result),
                                  !.vendor_results = Put(@, vendor, entry.result)]
                         ELSE [acc EXCEPT !.vendor_results = Put(@, vendor, "-")]
                 ELSE [acc EXCEPT !.vendor_results = Put(@, vendor, "-")]
         IN VendorLoop(Tail(loop_vendors), scans, next)

\* VENDORS[0]: TypeError on a bool, IndexError on an empty list
FirstVendorRaises(VENDORS) == VENDORS.py = "bool" \/ Len(VENDORS.v) = 0

ExtractVendors(r, a, VENDORS) ==
    IF ~r.ok THEN r
    ELSE IF "last_analysis_results" \notin DOMAIN a THEN Raised(r.info)
    ELSE LET scans == a.last_analysis_results
             cleared == [r.info EXCEPT !.vendor_results = EmptyDict]
         IN IF FirstVendorRaises(VENDORS) THEN Raised(cleared)
            ELSE LET loop_vendors == IF VENDORS.v[1] = "ALL" THEN ScanVendors(scans)
                                     ELSE VENDORS.v
                     acc == VendorLoop(loop_vendors, scans,
                                       [ok |-> TRUE, vendor_results |-> EmptyDict,
                                        virus_names |-> <<>>])
                     filled == [cleared EXCEPT !.vendor_results = acc.vendor_results]
                 IN IF ~acc.ok THEN Raised(filled)
                    ELSE IF Len(acc.virus_names) > 0
                    THEN Running([filled EXCEPT !.virus = Join(" / ", acc.virus_names)])
                    ELSE Running(filled)

ExtractBeforeStats(a) ==
    LET r1 == ExtractFilenames(Running(getEmptyInfo), a)
        r2 == Copy(r1, a, "type_description", "filetype")
        r3 == ExtractFilesize(r2, a)
        r4 == Copy(r3, a, "tags", "tags")
        r5 == ExtractTimestamp(r4, a, "first_submission_date", "first_submitted")
        r6 == Copy(r5, a, "times_submitted", "times_submitted")
        r7 == Copy(r6, a, "reputation", "reputation")
        r8 == ExtractExiftool(r7, a)
        r9 == ExtractPeInfo(r8, a)
        r10 == ExtractSignature(r9, a)
        r11 == Copy(r10, a, "md5", "md5")
        r12 == Copy(r11, a, "sha1", "sha1")
    IN Copy(r12, a, "sha256", "sha256")

ExtractStats(r, a) ==
    LET r1 == ExtractPositives(r, a)
        r2 == ExtractTotal(r1, a)
        r3 == SetRating(r2)
    IN ExtractTimestamp(r3, a, "last_submission_date", "last_submitted")

processAllOrNothing(sample_info, debug, VENDORS) ==
    IF "attributes" \notin DOMAIN sample_info THEN getEmptyInfo
    ELSE LET a == sample_info.attributes
             r == ExtractVendors(ExtractStats(ExtractBeforeStats(a), a), a, VENDORS)
         IN IF r.ok THEN r.info ELSE getEmptyInfo

\* debug only decides whether the traceback of a caught exception is printed.
processVirustotalSampleInfo(sample_info, debug, VENDORS) ==
    IF "attributes" \notin DOMAIN sample_info THEN getEmptyInfo
    ELSE LET a == sample_info.attributes
         IN ExtractVendors(ExtractStats(ExtractBeforeStats(a), a), a, VENDORS).info

-----------------------------------------------------------------------------
(* The payloads of the model *)

WinPath == <<"C:", "\\", "a", "\\", "b.exe">>

Scans(resultA, resultB) == <<<<"A", [result |-> resultA]>>, <<"B", [result |-> resultB]>>>>

Stats(malicious, suspicious) ==
    [malicious |-> malicious, suspicious |-> suspicious, undetected |-> 3, harmless |-> 1]

FullAttrs ==
    [names |-> <<WinPath, <<"b.exe">>>>, meaningful_name |-> <<"b.exe">>,
     type_description |-> "Win32 EXE", size |-> 1536, tags |-> <<"t1", "t2", "t1">>,
     first_submission_date |-> 0, times_submitted |-> 2, reputation |-> -1,
     exiftool |-> [LegalCopyright |-> "(c) ACME", FileDescription |-> "setup"],
     pe_info |-> [imphash |-> "imp"],
     signature_info |-> [signers |-> "ACME", verified |-> <<"Signed">>],
     md5 |-> "md5", sha1 |-> "sha1", sha256 |-> "sha256",
     last_analysis_stats |-> Stats(10, 1), last_submission_date |-> 90061,
     last_analysis_results |-> Scans("Trojan", "")]

StatsKeys == {"malicious", "suspicious", "undetected", "harmless"}

\* the attributes with one key missing, at the top level or in the stats
AttrsWithMissingKey ==
    {Drop(FullAttrs, {k}) : k \in DOMAIN FullAttrs}
        \cup {[FullAttrs EXCEPT !.last_analysis_stats = Drop(@, {k})] : k \in StatsKeys}

AttrsWithStats ==
    {[FullAttrs EXCEPT !.last_analysis_stats = Stats(m, s)] : m \in {0, 10, 11}, s \in {0, 1}}

AttrsWithScans ==
    {[FullAttrs EXCEPT !.last_analysis_results = sc] :
        sc \in {<<>>, Scans("", ""), Scans("Trojan", "Worm"),
                <<<<"B", [result |-> "Worm"]>>, <<"A", EmptyDict>>>>}}

AttrsWithOptionals ==
    {[FullAttrs EXCEPT !.exiftool = [FileDescription |-> "setup"]],
     [FullAttrs EXCEPT !.exiftool = [LegalCopyright |-> "(c) ACME"]],
     [FullAttrs EXCEPT !.pe_info = EmptyDict],
     [FullAttrs EXCEPT !.signature_info = [verified |-> <<"Revoked", "Expired">>]],
     [FullAttrs EXCEPT !.signature_info = [signers |-> "ACME"]],
     [FullAttrs EXCEPT !.signature_info = [signers |-> "ACME",
                                           verified |-> <<"Signed", "Expired">>]],
     [FullAttrs EXCEPT !.size = 0],
     [FullAttrs EXCEPT !.size = 1048576],
     [FullAttrs EXCEPT !.names = <<>>],
     [Drop(FullAttrs, {"meaningful_name"}) EXCEPT !.names = <<WinPath, <<"a;c.txt">>>>]}

AllAttrs ==
    {FullAttrs} \cup AttrsWithMissingKey \cup AttrsWithStats \cup AttrsWithScans
        \cup AttrsWithOptionals

\* the raw samples handed to the normalizer
Samples == {EmptyDict} \cup {[attributes |-> a] : a \in AllAttrs}

\* the vendor filters: the bool that getVTInfo and getRetrohuntResults default
\* to, the sentinel list, explicit lists, the empty list
VendorFilters ==
    {PyBool(FALSE), PyBool(TRUE), PyList(<<"ALL">>), PyList(<<"B", "C">>),
     PyList(<<"A">>), PyList(<<>>)}

-----------------------------------------------------------------------------
(* HTTP *)

\* A response body is not JSON, a JSON null, number or bool ("scalar"), or a
\* JSON object.
NonJson == [kind |-> "nonjson"]
Scalar == [kind |-> "scalar"]
Object(members) == [kind |-> "object", json |-> members]

TransportError == [kind |-> "exc"]
Http(status, body) == [kind |-> "http", status |-> status, body |-> body]

Statuses == {200, 404, 429, 500}

\* requests.Response.ok
Ok(response) == response.status < 400

\* json.loads(content) returns (rather than raising ValueError)
JsonLoads(body) == body.kind # "nonjson"

\* "key" in value, value[key]: TypeError on a scalar, KeyError on an object
\* without the key
HasKey(body, key) == body.kind = "object" /\ key \in DOMAIN body.json

-----------------------------------------------------------------------------
(* searchVirustotalComments *)

Comment(author, tags) ==
    [relationships |-> [author |-> [data |-> [id |-> author]]],
     attributes |-> [tags |-> tags]]

CommentEntries ==
    {Comment("u1", <<"c1", "c2", "c1">>),
     Drop(Comment("u1", <<"c1">>), {"relationships"}),
     Drop(Comment("u2", <<"c2">>), {"attributes"})}

SeqsUpTo(S, n) == UNION {[1..k -> S] : k \in 0..n}

CommentFailures ==
    {TransportError, Http(404, NonJson), Http(200, NonJson), Http(200, Scalar),
     Http(200, Object(EmptyDict))}

CommentOutcomes ==
    CommentFailures
        \cup {Http(200, Object([data |-> d])) : d \in SeqsUpTo(CommentEntries, MaxComments)}

EmptyComments == [comments |-> 0, commenter |-> <<"-">>, tags |-> <<>>]

\* The for loop over r_comments["data"]: acc is [ok, commenter, tags].
RECURSIVE CommentLoop(_, _)
CommentLoop(data, acc) ==
    IF Len(data) = 0 \/ ~acc.ok THEN acc
    ELSE LET com == Head(data)
             next ==
                 IF "relationships" \notin DOMAIN com THEN [acc EXCEPT !.ok = FALSE]
                 ELSE LET appended == [acc EXCEPT !.commenter =
                                          Append(@, com.relationships.author.data.id)]
                      IN IF "attributes" \notin DOMAIN com
                         THEN [appended EXCEPT !.ok = FALSE]
                         ELSE [appended EXCEPT !.tags = @ \o com.attributes.tags]
         IN CommentLoop(Tail(data), next)

\* r is the outcome of the request for the comments of sha256.  Every
\* exception is caught; debug only decides what is printed.
searchVirustotalComments(sha256, debug, r) ==
    IF r.kind = "exc" THEN EmptyComments
    ELSE IF ~Ok(r) THEN EmptyComments
    ELSE IF ~JsonLoads(r.body) THEN EmptyComments
    ELSE IF ~HasKey(r.body, "data") THEN EmptyComments
    ELSE LET data == r.body.json.data
             counted == [EmptyComments EXCEPT !.comments = Len(data)]
         IN IF Len(data) = 0 THEN counted
            ELSE LET acc == CommentLoop(data, [ok |-> TRUE, commenter |-> <<>>,
                                               tags |-> <<>>])
                 IN [counted EXCEPT !.commenter = acc.commenter, !.tags = acc.tags]

-----------------------------------------------------------------------------
(* getVTInfo *)

\* the samples a file report carries
LookupAttrs ==
    {FullAttrs, Drop(FullAttrs, {"sha256"}), Drop(FullAttrs, {"last_analysis_stats"}),
     Drop(FullAttrs, {"names"}),
     [FullAttrs EXCEPT !.last_analysis_stats = Stats(0, 0),
                       !.last_analysis_results = Scans("Trojan", "Worm")]}

LookupSamples == {EmptyDict} \cup {[attributes |-> a] : a \in LookupAttrs}

ErrorBody(code) == Object([error |-> [code |-> code]])

ReportBodies ==
    {NonJson, Scalar, Object(EmptyDict), ErrorBody("NotFoundError"),
     ErrorBody("QuotaExceededError"), Object([error |-> [message |-> "internal"]])}
        \cup {Object([data |-> s]) : s \in LookupSamples}

ReportOutcomes == {TransportError} \cup {Http(st, b) : st \in Statuses, b \in ReportBodies}

\* One pass of the while loop has left the try block without an exception:
\* requests.get and json.loads both returned.
Parsed(o) == o.kind = "http" /\ JsonLoads(o.body)

\* The pass sleeps and clears success again.
WaitsOnQuota(o, vtwaitquota) == Parsed(o) /\ o.status = 429 /\ vtwaitquota

\* The test of the diagnostic after the loop; with debug the test is not
\* evaluated.  It raises TypeError on a scalar body.
NotFoundTestRaises(debug, body) == ~debug /\ body.kind = "scalar"

\* "text" in response_dict_code iterates over the chunks of the body, which are
\* bytes: no chunk equals a str.
ResponseContains(response, text) == FALSE

FailedInfo(hash) == [getEmptyInfo EXCEPT !.hash = hash]

FinishInfo(info, hash, response) ==
    LET tagged == [info EXCEPT !.hash = hash, !.tags = uniqList(@)]
        harmless == IF ResponseContains(response, "Probably harmless!")
                    THEN [tagged EXCEPT !.harmless = TRUE] ELSE tagged
    IN IF ResponseContains(response,
              "This file belongs to the Microsoft Corporation software catalogue.")
       THEN [harmless EXCEPT !.mssoft = TRUE] ELSE harmless

\* one pass of the while loop
getVTInfoRequest ==
    /\ op = "getVTInfo"
    /\ pc = "loop"
    /\ requests < MaxAttempts
    /\ \E o \in ReportOutcomes :
          /\ resp' = o
          /\ requests' = requests + 1
          /\ slept' = WaitsOnQuota(o, args.vtwaitquota)
          /\ sleeps' = IF WaitsOnQuota(o, args.vtwaitquota) THEN sleeps + 1 ELSE sleeps
          /\ pc' = IF Parsed(o) /\ ~WaitsOnQuota(o, args.vtwaitquota) THEN "exit" ELSE "loop"
    /\ UNCHANGED <<op, args, hashSeed, files, url, urls, nexts, served, ret>>

\* what follows the loop
getVTInfoReturn ==
    /\ op = "getVTInfo"
    /\ pc = "exit"
    /\ IF ~Ok(resp)
       THEN IF NotFoundTestRaises(args.debug, resp.body)
            THEN pc' = "raised" /\ ret' = "TypeError"
            ELSE pc' = "returned" /\ ret' = FailedInfo(args.hash)
       ELSE IF ~HasKey(resp.body, "data")
            THEN /\ pc' = "raised"
                 /\ ret' = IF resp.body.kind = "scalar" THEN "TypeError" ELSE "KeyError"
            ELSE LET info == processVirustotalSampleInfo(resp.body.json.data, args.debug,
                                                         args.vtallvendors)
                 IN /\ pc' = "returned"
                    /\ IF "sha256" \in DOMAIN info
                       THEN \E c \in CommentOutcomes :
                               ret' = FinishInfo(
                                   Update(info, searchVirustotalComments(info.sha256,
                                                                         args.debug, c)),
                                   args.hash, resp)
                       ELSE ret' = FinishInfo(info, args.hash, resp)
    /\ UNCHANGED <<op, args, hashSeed, resp, requests, sleeps, slept, files, url, urls,
                   nexts, served>>

-----------------------------------------------------------------------------
(* checkVirustotalQuota *)

Quota(used, allowed) == [used |-> used, allowed |-> allowed]

FullQuotas ==
    [api_requests_daily |-> Quota(1, 500), api_requests_monthly |-> Quota(30, 15000)]

UserBody(quotas) == Object([data |-> [attributes |-> [quotas |-> quotas]]])

QuotaBodies ==
    {NonJson, Scalar, Object(EmptyDict), Object([data |-> [attributes |-> EmptyDict]])}
        \cup {UserBody(Drop(FullQuotas, K)) : K \in SUBSET DOMAIN FullQuotas}
        \cup {UserBody([FullQuotas EXCEPT ![p] = Drop(@, {k})]) :
                 p \in DOMAIN FullQuotas, k \in {"used", "allowed"}}
        \cup {UserBody([api_requests_daily |-> Quota(d, 500),
                        api_requests_monthly |-> Quota(m, 15000)]) :
                 d \in {0, 500}, m \in {0, 15000}}

QuotaOutcomes == {TransportError} \cup {Http(st, b) : st \in Statuses, b \in QuotaBodies}

\* the four reads of r_user_json return (rather than raising KeyError or TypeError)
QuotaReadable(body) ==
    /\ HasKey(body, "data")
    /\ "attributes" \in DOMAIN body.json.data
    /\ "quotas" \in DOMAIN body.json.data.attributes
    /\ LET quotas == body.json.data.attributes.quotas
       IN /\ {"api_requests_daily", "api_requests_monthly"} \subseteq DOMAIN quotas
          /\ \A p \in {"api_requests_daily", "api_requests_monthly"} :
                {"used", "allowed"} \subseteq DOMAIN quotas[p]

QuotaTuple(body) ==
    LET quotas == body.json.data.attributes.quotas
    IN <<quotas.api_requests_daily.used, quotas.api_requests_daily.allowed,
         quotas.api_requests_monthly.used, quotas.api_requests_monthly.allowed>>

\* The except block reads debug, which is neither a parameter nor a global of
\* the module: the handler itself raises NameError.
checkVirustotalQuota ==
    /\ op = "checkVirustotalQuota"
    /\ pc = "call"
    /\ \E o \in QuotaOutcomes :
          /\ resp' = o
          /\ requests' = requests + 1
          /\ IF o.kind = "exc" THEN pc' = "raised" /\ ret' = "NameError"
             ELSE IF ~Ok(o) THEN pc' = "returned" /\ ret' = "None"
             ELSE IF ~JsonLoads(o.body) \/ ~QuotaReadable(o.body)
                  THEN pc' = "raised" /\ ret' = "NameError"
             ELSE pc' = "returned" /\ ret' = QuotaTuple(o.body)
    /\ UNCHANGED <<op, args, hashSeed, sleeps, slept, files, url, urls, nexts, served>>

-----------------------------------------------------------------------------
(* getRetrohuntResults *)

RETROHUNT_URL == "https://www.virustotal.com/api/v3/intelligence/retrohunt_jobs"

FirstUrl(retrohunt_id) == RETROHUNT_URL \o "/" \o retrohunt_id \o "/matching_files?limit=300"

\* the rule names of the model, in the ascending order of str
RuleNames == <<"rule_a", "rule_b">>

RuleRank(rule) == CHOOSE i \in DOMAIN RuleNames : RuleNames[i] = rule

\* An entry of a page: a match of a rule, or an entry with an error marker.
\* The malformed ones lack a key that the loop body reads.
EntryKinds == {"error"} \cup Range(RuleNames)

MalformedKinds == {"error_without_message", "without_id", "without_context"}

\* The matches of the model's endpoint: a match of rule_a is a complete sample,
\* a match of rule_b a sample without last_analysis_stats.  Their tags are one
\* tag twice, so that no set(...) of a pager call has two elements and the hash
\* seed decides nothing there.
EntryAttrs(kind) ==
    LET attrs == [FullAttrs EXCEPT !.tags = <<"t1", "t1">>]
    IN IF kind = "rule_b" THEN Drop(attrs, {"last_analysis_stats"}) ELSE attrs

Entry(kind, id) ==
    LET file == [id |-> id, attributes |-> EntryAttrs(kind),
                 context_attributes |->
                     [rule_name |-> IF kind \in Range(RuleNames) THEN kind ELSE "rule_a"]]
    IN CASE kind = "error" -> Put(file, "error", [message |-> "not available"])
         [] kind = "error_without_message" -> Put(file, "error", EmptyDict)
         [] kind = "without_id" -> Drop(file, {"id"})
         [] kind = "without_context" -> Drop(file, {"context_attributes"})
         [] OTHER -> file

EntryId(pageNo, i) == "file" \o ToString(pageNo) \o "_" \o ToString(i)

\* The comment requests of the model's endpoint: the comments of a match of
\* rule_a are one comment, the request for those of a match of rule_b fails.
EntryComments(file) ==
    IF file.context_attributes.rule_name = "rule_a"
    THEN Http(200, Object([data |-> <<Comment("u1", <<"c1", "c1">>)>>]))
    ELSE Http(404, NonJson)

\* the links member of a page: absent, without next, or with the URL of the
\* next page
LinkChoices == {"absent", "last", "next"}

NextUrl(pageNo) == "cursor_" \o ToString(pageNo)

Links(choice, pageNo) == IF choice = "last" THEN EmptyDict ELSE [next |-> NextUrl(pageNo)]

\* The kinds of the entries of a page of at most n entries: well-formed
\* entries, then at most one malformed entry (what follows a malformed entry is
\* never read).
PageKinds(n) ==
    SeqsUpTo(EntryKinds, n)
        \cup {Append(k, m) : k \in SeqsUpTo(EntryKinds, n - 1), m \in MalformedKinds}

PageBody(kinds, l, pageNo) ==
    LET d == [i \in DOMAIN kinds |-> Entry(kinds[i], EntryId(pageNo, i))]
    IN Object(IF l = "absent" THEN [data |-> d] ELSE [data |-> d, links |-> Links(l, pageNo)])

PageFailures ==
    {TransportError, Http(500, NonJson), Http(200, NonJson), Http(200, Scalar),
     Http(200, Object(EmptyDict))}

\* what resp keeps of a page: not its entries
Summary(o) == IF o.kind = "http" THEN Http(o.status, [kind |-> o.body.kind]) ELSE o

\* the keys that the loop body reads of an entry
EntryReadable(file) ==
    IF "error" \in DOMAIN file
    THEN "id" \in DOMAIN file /\ "message" \in DOMAIN file.error
    ELSE "id" \in DOMAIN file /\ "context_attributes" \in DOMAIN file

NoComments == [comments |-> 0, commenter |-> <<>>]

\* the body of the for loop for an entry without an error marker
FileInfo(file, no_comments, debug, vtallvendors) ==
    LET info == processVirustotalSampleInfo(file, debug, vtallvendors)
        named == Put(Put(info, "hash", file.id),
                     "matching_rule", file.context_attributes.rule_name)
        commented == IF ~no_comments
                     THEN Update(named, searchVirustotalComments(file.id, FALSE,
                                                                 EntryComments(file)))
                     ELSE Update(named, NoComments)
    IN [commented EXCEPT !.tags = uniqList(@)]

\* The for loop over response_json["data"]: entries with an error marker are
\* skipped.
RECURSIVE EntryLoop(_, _, _, _, _)
EntryLoop(data, acc, no_comments, debug, vtallvendors) ==
    IF Len(data) = 0 THEN acc
    ELSE IF "error" \in DOMAIN Head(data)
    THEN EntryLoop(Tail(data), acc, no_comments, debug, vtallvendors)
    ELSE EntryLoop(Tail(data),
                   Append(acc, FileInfo(Head(data), no_comments, debug, vtallvendors)),
                   no_comments, debug, vtallvendors)

\* sorted(files, key=lambda i: i["matching_rule"]): a stable sort
RECURSIVE InsertByRule(_, _)
InsertByRule(sorted, file) ==
    IF Len(sorted) = 0 THEN <<file>>
    ELSE IF RuleRank(sorted[Len(sorted)].matching_rule) <= RuleRank(file.matching_rule)
    THEN Append(sorted, file)
    ELSE Append(InsertByRule(SubSeq(sorted, 1, Len(sorted) - 1), file), sorted[Len(sorted)])

RECURSIVE SortedByRuleFrom(_, _)
SortedByRuleFrom(sorted, rest) ==
    IF Len(rest) = 0 THEN sorted
    ELSE SortedByRuleFrom(InsertByRule(sorted, Head(rest)), Tail(rest))

Unsorted(list) == list

SortedByRule(list) == SortedByRuleFrom(<<>>, list)

\* url after a page with a next link
FollowLink(current, links) == links.next

\* what the pages read so far were: id, rule and error marker of every entry
ServedEntry(file, pageNo) ==
    [id |-> file.id, rule |-> file.context_attributes.rule_name,
     error |-> "error" \in DOMAIN file, page |-> pageNo]

\* An exception leaves getRetrohuntResults: its frame, with files, is gone.
PagerRaises(exception) ==
    /\ pc' = "raised"
    /\ ret' = exception
    /\ files' = <<>>
    /\ served' = <<>>
    /\ UNCHANGED <<url, nexts>>

\* what follows requests.get in one pass of the while loop; o is the response
\* or the transport exception
PageStep(o) ==
    /\ resp' = Summary(o)
    /\ requests' = requests + 1
    /\ urls' = Append(urls, url)
    /\ IF o.kind = "exc" THEN PagerRaises("ConnectionError")
       ELSE IF ~Ok(o) \/ ~JsonLoads(o.body)
       THEN /\ pc' = "returned" /\ ret' = SortedByRule(files)
            /\ UNCHANGED <<files, url, nexts, served>>
       ELSE IF ~HasKey(o.body, "data")
       THEN PagerRaises(IF o.body.kind = "scalar" THEN "TypeError" ELSE "KeyError")
       ELSE LET data == o.body.json.data
            IN IF \E i \in DOMAIN data : ~EntryReadable(data[i])
               THEN PagerRaises("KeyError")
               ELSE IF "links" \notin DOMAIN o.body.json
               THEN PagerRaises("KeyError")
               ELSE /\ files' = EntryLoop(data, files, args.no_comments, args.debug,
                                          args.vtallvendors)
                    /\ served' = served \o [i \in DOMAIN data |->
                                               ServedEntry(data[i], requests + 1)]
                    /\ IF "next" \in DOMAIN o.body.json.links
                       THEN /\ url' = FollowLink(url, o.body.json.links)
                            /\ nexts' = Append(nexts, o.body.json.links.next)
                            /\ pc' = "loop"
                            /\ ret' = ret
                       ELSE /\ pc' = "returned"
                            /\ ret' = SortedByRule(files')
                            /\ UNCHANGED <<url, nexts>>

\* One pass of the while loop: one page.  The page MaxPages has no next link.
getRetrohuntResultsPage ==
    /\ op = "getRetrohuntResults"
    /\ pc = "loop"
    /\ requests < MaxPages
    /\ \/ \E o \in PageFailures : PageStep(o)
       \/ \E kinds \in PageKinds(MaxEntries - Len(served)),
             l \in IF requests + 1 = MaxPages THEN LinkChoices \ {"next"} ELSE LinkChoices :
             PageStep(Http(200, PageBody(kinds, l, requests + 1)))
    /\ UNCHANGED <<op, args, hashSeed, sleeps, slept>>

-----------------------------------------------------------------------------
(* Calls *)

Idle ==
    /\ resp = [kind |-> "none"]
    /\ requests = 0
    /\ sleeps = 0
    /\ slept = FALSE
    /\ files = <<>>
    /\ url = IF op = "getRetrohuntResults" THEN FirstUrl(args.retrohunt_id) ELSE "none"
    /\ urls = <<>>
    /\ nexts = <<>>
    /\ served = <<>>
    /\ ret = "none"

InitNormalize ==
    /\ hashSeed \in {0, 1}
    /\ op = "processVirustotalSampleInfo"
    /\ pc = "call"
    /\ args \in [sample_info : Samples, debug : BOOLEAN, VENDORS : VendorFilters]

InitComments ==
    /\ hashSeed \in {0, 1}
    /\ op = "searchVirustotalComments"
    /\ pc = "call"
    /\ args \in [sha256 : {"sha256"}, debug : BOOLEAN]

InitLookup ==
    /\ hashSeed \in {0, 1}
    /\ op = "getVTInfo"
    /\ pc = "loop"
    /\ args \in [hash : {"h1"}, debug : BOOLEAN,
                 vtallvendors : {PyBool(FALSE), PyBool(TRUE), PyList(<<"ALL">>),
                                 PyList(<<"B", "C">>)},
                 vtwaitquota : BOOLEAN]

InitPager ==
    /\ hashSeed = 0
    /\ op = "getRetrohuntResults"
    /\ pc = "loop"
    /\ args \in [retrohunt_id : {"job"}, no_comments : BOOLEAN, debug : {FALSE},
                 vtallvendors : {PyBool(FALSE), PyList(<<"ALL">>)}]

InitQuota ==
    /\ hashSeed \in {0, 1}
    /\ op = "checkVirustotalQuota"
    /\ pc = "call"
    /\ args \in [VT_USERID : {"user"}]

Init ==
    /\ \/ InitNormalize
       \/ InitComments
       \/ InitLookup
       \/ InitPager
       \/ InitQuota
    /\ Idle

CallProcessVirustotalSampleInfo ==
    /\ op = "processVirustotalSampleInfo"
    /\ pc = "call"
    /\ ret' = processVirustotalSampleInfo(args.sample_info, args.debug, args.VENDORS)
    /\ pc' = "returned"
    /\ UNCHANGED <<op, args, hashSeed, resp, requests, sleeps, slept, files, url, urls,
                   nexts, served>>

CallSearchVirustotalComments ==
    /\ op = "searchVirustotalComments"
    /\ pc = "call"
    /\ \E c \in CommentOutcomes :
          /\ resp' = c
          /\ ret' = searchVirustotalComments(args.sha256, args.debug, c)
    /\ requests' = requests + 1
    /\ pc' = "returned"
    /\ UNCHANGED <<op, args, hashSeed, sleeps, slept, files, url, urls, nexts, served>>

Next ==
    \/ CallProcessVirustotalSampleInfo
    \/ CallSearchVirustotalComments
    \/ getVTInfoRequest
    \/ getVTInfoReturn
    \/ getRetrohuntResultsPage
    \/ checkVirustotalQuota

Spec == Init /\ [][Next]_vars

-----------------------------------------------------------------------------
(* The records a call has returned *)

IsRecordCall == op \in {"processVirustotalSampleInfo", "getVTInfo"}

\* P holds of every record that the normalizer, the lookup or the pager returned
EveryReturnedRecord(P(_)) ==
    pc = "returned" =>
        /\ IsRecordCall => P(ret)
        /\ op = "getRetrohuntResults" => \A i \in DOMAIN ret : P(ret[i])

\* P holds of every record that the lookup or the pager returned
EveryFetchedRecord(P(_)) ==
    pc = "returned" =>
        /\ op = "getVTInfo" => P(ret)
        /\ op = "getRetrohuntResults" => \A i \in DOMAIN ret : P(ret[i])

-----------------------------------------------------------------------------
(* C1 *)

QuotaResponse == op = "getVTInfo" /\ resp.kind = "http" /\ resp.status = 429

\* C1: in getVTInfo a 429 response leads to another request if and only if
\* vtwaitquota is true.  With the option false no request and no sleep follows
\* a 429 response; with the option true the pass that received the 429 response
\* slept once and the loop goes on (no record is returned).
C1_QuotaRetryIffOptedIn ==
    [][/\ (QuotaResponse /\ ~args.vtwaitquota) =>
              (sleeps = 0 /\ requests' = requests /\ sleeps' = sleeps)
       /\ (QuotaResponse /\ args.vtwaitquota) => (slept /\ pc = "loop")]_vars

-----------------------------------------------------------------------------
(* C2 *)

\* C2: when the response that ends the request loop of getVTInfo is not ok,
\* getVTInfo does not raise and returns the empty record with hash set to the
\* input hash.
C2_FailedLookupReturnsDefaults ==
    (op = "getVTInfo" /\ pc \in {"returned", "raised"} /\ ~Ok(resp)) =>
        (pc = "returned" /\ ret = [getEmptyInfo EXCEPT !.hash = args.hash])

-----------------------------------------------------------------------------
(* C3 *)

IsMatch(e) == ~e.error

Matches == SelectSeq(served, IsMatch)

OfRule(seq, rule) == LET Test(e) == e.rule = rule IN SelectSeq(seq, Test)

ReturnedOfRule(rule) ==
    LET Test(f) == f.matching_rule = rule
        kept == SelectSeq(ret, Test)
    IN [i \in DOMAIN kept |-> kept[i].hash]

\* C3: getRetrohuntResults requests the first URL and then the links.next of
\* the page before; it goes on while the page read has a next link and returns
\* at the first page without one or at the first response that is not ok or
\* not JSON; what it returns is one record per entry without an error marker
\* of the pages it read, ascending by matching_rule, the entries of one rule in
\* the order they were read.
C3_PagerResult ==
    op = "getRetrohuntResults" =>
        /\ Len(urls) = requests
        /\ requests > 0 => urls[1] = FirstUrl(args.retrohunt_id)
        /\ \A i \in 2..Len(urls) : i - 1 \in DOMAIN nexts /\ urls[i] = nexts[i - 1]
        /\ pc = "loop" => Len(nexts) = requests
        /\ pc = "returned" =>
              /\ Len(nexts) = requests - 1
              /\ Len(ret) = Len(Matches)
              /\ \A i, j \in DOMAIN ret :
                    i < j => RuleRank(ret[i].matching_rule) <= RuleRank(ret[j].matching_rule)
              /\ \A rule \in Range(RuleNames) :
                    ReturnedOfRule(rule) =
                        [i \in DOMAIN OfRule(Matches, rule) |-> OfRule(Matches, rule)[i].id]

OnPage(pageNo) == LET Test(e) == e.page = pageNo IN SelectSeq(served, Test)

\* two pages of 3 + 2 entries, one entry of page 1 with an error marker: 4
\* records, and the sort has moved one
C3_Witness ==
    /\ op = "getRetrohuntResults"
    /\ pc = "returned"
    /\ requests = 2
    /\ Len(OnPage(1)) = 3
    /\ Len(OnPage(2)) = 2
    /\ Len(SelectSeq(OnPage(1), IsMatch)) = 2
    /\ Len(SelectSeq(OnPage(2), IsMatch)) = 2
    /\ Len(ret) = 4
    /\ ret # files

-----------------------------------------------------------------------------
(* C4 *)

RatingFollowsPositives(r) ==
    /\ r.rating = "clean" <=> r.positives = 0
    /\ r.rating = "malicious" <=> r.positives > 10
    /\ r.rating # "clean" /\ r.rating # "malicious" => r.rating = "suspicious"

\* C4 as stated: of every returned record, rating is clean iff positives is 0,
\* malicious iff positives > 10, and suspicious otherwise.
C4_RatingOfEveryRecord == EveryReturnedRecord(RatingFollowsPositives)

RatingOfRatedRecord(r) ==
    /\ r.rating \in {"unknown", "clean", "suspicious", "malicious"}
    /\ r.rating = "unknown" <=> "total" \notin DOMAIN r
    /\ r.rating # "unknown" => RatingFollowsPositives(r)

\* C4 amended: a returned record whose stats were read in full (it has total)
\* has a rating that is clean iff positives is 0, malicious iff positives > 10
\* and suspicious otherwise; every other returned record has the rating unknown.
C4_RatingOfRatedRecords == EveryReturnedRecord(RatingOfRatedRecord)

C4_Witness ==
    /\ op = "processVirustotalSampleInfo"
    /\ pc = "returned"
    /\ ret.positives = 10
    /\ ret.rating = "suspicious"

-----------------------------------------------------------------------------
(* C5 *)

BaselineFields ==
    {"hash", "result", "virus", "rating", "positives", "filenames", "filetype",
     "filesize", "imphash", "signer", "copyright", "description", "signed", "revoked",
     "expired", "harmless", "mssoft", "vendor_results", "tags", "comments", "commenter",
     "first_submitted", "last_submitted", "times_submitted", "reputation"}

HasBaselineFields(r) == BaselineFields \subseteq DOMAIN r

\* C5: every record that getVTInfo or getRetrohuntResults returns has all
\* baseline fields of the data model as keys.
C5_BaselineFieldsPresent == EveryFetchedRecord(HasBaselineFields)

-----------------------------------------------------------------------------
(* C6 *)

\* C6: no call raises: getVTInfo, searchVirustotalComments and
\* getRetrohuntResults return a record (or a list of records),
\* checkVirustotalQuota returns the 4-tuple or None.
C6_NoCallRaises == pc # "raised"

-----------------------------------------------------------------------------
(* C7 *)

\* what dict.update with the enricher's empty result, then uniqList, leaves
HasEmptyComments(r) ==
    /\ r.comments = EmptyComments.comments
    /\ r.commenter = EmptyComments.commenter
    /\ r.tags = EmptyComments.tags

\* C7: every record that getRetrohuntResults returns with no_comments set has
\* the comment fields of the enricher's empty result.
C7_DisabledCommentsAreEmptyResult ==
    (op = "getRetrohuntResults" /\ args.no_comments /\ pc = "returned") =>
        \A i \in DOMAIN ret : HasEmptyComments(ret[i])

-----------------------------------------------------------------------------
(* C8 *)

KeysBeforeStats ==
    {"names", "type_description", "size", "tags", "first_submission_date",
     "times_submitted", "reputation", "md5", "sha1", "sha256"}

\* the call was processVirustotalSampleInfo on a sample with attributes that
\* has every key read before the stats, and lacks the stats or one of the counts
StatsMissing ==
    /\ op = "processVirustotalSampleInfo"
    /\ pc = "returned"
    /\ "attributes" \in DOMAIN args.sample_info
    /\ KeysBeforeStats \subseteq DOMAIN args.sample_info.attributes
    /\ ~HasStats(args.sample_info.attributes, StatsKeys)

-----------------------------------------------------------------------------
(* C9 *)

\* C9: once a request of getVTInfo has received an HTTP response that is not a
\* 429 with vtwaitquota set, whatever its body, no further request is sent
\* (only a transport exception is followed by another request).
C9_OnlyTransportErrorsResend ==
    [][(/\ op = "getVTInfo"
        /\ resp.kind = "http"
        /\ ~(resp.status = 429 /\ args.vtwaitquota)) => requests' = requests]_vars

-----------------------------------------------------------------------------
(* C10 *)

\* the sample of the record r that getVTInfo returned
LookupAttrsOf == resp.body.json.data.attributes

HasResult(scans, vendor) ==
    /\ vendor \in Range(ScanVendors(scans))
    /\ ScanEntry(scans, vendor).result # ""

\* the vendors in scope: those of the scan data for the filter "ALL" (a true
\* includeAllVendors), those of the list otherwise
Scope(filter, scans) ==
    IF filter = PyBool(TRUE) \/ filter = PyList(<<"ALL">>) THEN ScanVendors(scans)
    ELSE filter.v

VendorFieldsAgree(r, filter, scans) ==
    LET scope == Scope(filter, scans)
        Found(vendor) == HasResult(scans, vendor)
        found == SelectSeq(scope, Found)
    IN /\ DOMAIN r.vendor_results = Range(scope)
       /\ \A vendor \in Range(scope) :
             r.vendor_results[vendor] =
                 IF HasResult(scans, vendor) THEN ScanEntry(scans, vendor).result ELSE "-"
       /\ r.virus = IF Len(found) = 0 THEN "-"
                    ELSE Join(" / ", [i \in DOMAIN found |->
                                         found[i] \o ": " \o ScanEntry(scans, found[i]).result])

\* C10: the record of a successful getVTInfo on a complete sample has one
\* vendor_results key per vendor in scope, mapped to the vendor's result or to
\* "-", and virus joins "{vendor}: {result}" over the vendors with a result.
C10_VendorResultsCoverScope ==
    (/\ op = "getVTInfo"
     /\ pc = "returned"
     /\ Ok(resp)
     /\ "attributes" \in DOMAIN resp.body.json.data
     /\ DOMAIN FullAttrs \subseteq DOMAIN LookupAttrsOf
     /\ args.vtallvendors # PyBool(FALSE)) =>
        VendorFieldsAgree(ret, args.vtallvendors, LookupAttrsOf.last_analysis_results)

====
